---- MODULE Spec2Model ----
(***************************************************************************)
(* Scene graph of pyg-engine: pyg::GameObject (src/src/core/GameObject.h,  *)
(* src/src/core/GameObject.cpp) and the part of pyg::Component it uses.    *)
(* GameObjects and Components are heap objects named by their address;     *)
(* NULL is the null pointer.  The program is single threaded: a call runs  *)
(* to completion before the next one starts, except the destructor, whose  *)
(* nested `delete` calls are modelled frame by frame on `stack`.           *)
(* Further parts: the property bag of pyg::Component                       *)
(* (src/src/core/Component.cpp), the game-object list of pyg::Engine       *)
(* (src/src/core/Engine.cpp) and pyg::Color (src/src/datatypes/Color.h).   *)
(***************************************************************************)
EXTENDS Integers, Sequences, FiniteSets, TLC

\* ---- bounds of the model ----
MaxObj == 2          \* GameObjects the application constructs
MaxComp == 2         \* Components the application constructs
MaxChildren == 2     \* entries all children_ vectors hold together
MaxComponents == 2   \* entries all components_ vectors hold together
MaxId == 2           \* std::rand() draws a value in 0..MaxId-1
MaxDepth == 2        \* destructor frames that fit on the call stack
MaxProps == 2        \* entries of a Component's properties_
MaxTracked == 3      \* entries of Engine's game-object vector
VecDim == 3          \* the dimension N of Vector<N>
MaxWin == 2          \* Windows constructed by the engine and the application

Uint8Range == 256    \* number of values of a uint8_t
\* channel values around the ends of the range: 55 + 200 is exactly 255
ChannelValues == {0, 55, 200}

\* A float scalar is counted in units of 1/ScalarUnit; Epsilon is the 0.00001f
\* that Color::operator/=(float) compares with.
ScalarUnit == 1000000
Epsilon == 10
\* -1, 0, 0.000001, 0.00001, 0.5 and 2
ScalarValues == {-1000000, 0, 1, 10, 500000, 2000000}

NULL == 0
Obj == 1..MaxObj
Comp == 1..MaxComp
Ptr == Obj \cup {NULL}
Ids == 0..(MaxId - 1)
Names == {"", "a"}
Win == 1..MaxWin

VARIABLES
    constructed,      \* set of GameObject addresses returned by `new GameObject`
    id_,              \* GameObject::id_
    name_,            \* GameObject::name_
    parent_,          \* GameObject::parent_
    children_,        \* GameObject::children_
    components_,      \* GameObject::components_
    game_object_map,  \* the function-local static of get_object_map()
    comp_id,          \* Component::id_ of every constructed Component
    comp_deletes,     \* how many times `delete` ran on each Component
    dtor_entries,     \* how many times ~GameObject was entered on each GameObject
    stack,            \* GameObjects whose destructor body is on the call stack
    pc,               \* "idle" (between calls), "dtor" (inside delete), "copy"
                      \* (inside the copy constructor), "crashed"
    last,             \* the last call the application made, its argument and result
    updated,          \* Component::update calls made by the last GameObject call
    properties_,      \* Component::properties_ of the component under study
    plast,            \* the last property call on that component and its result
    game_objects_,    \* Engine::game_objects_
    is_paused_,       \* Engine::is_paused_
    engine_updated,   \* GameObject::update calls made by the last Engine::update
    in_pause,         \* whether the latest of the pause/resume calls was a pause
    is_running_,      \* Engine::is_running_
    window_,          \* Engine::window_
    owns_window_,     \* Engine::owns_window_
    window_visible_,  \* Engine::window_visible_
    engine_pc,        \* "idle", "loop" / "loop_nowindow" (inside the loop of
                      \* start(), with / without a window), "destroyed"
    frames,           \* parity of the number of loop iterations start() has run
    engine_deleted,   \* how many times the engine ran `delete` on each GameObject
    win_owner,        \* who constructed each Window: "none", "engine", "app"
    win_open,         \* Window::isOpen() of each Window
    win_event,        \* whether a Closed event waits in each Window's queue
    win_deletes,      \* how many times `delete` ran on each Window
    cx, cy,           \* two Color operands
    cpre,             \* cx as it was before a compound assignment
    cres,             \* the Color an operator returned
    cop,              \* the Color operator applied
    cs,               \* a float scalar operand
    vec, vec2,        \* two Vector<VecDim> operands (components)
    vlast,            \* the Vector operator applied, its operands and result
    mlast,            \* the Math function called, its argument and result
    mstack,           \* the arguments of the Math calls on the call stack
    mpc               \* "idle", "call" (inside a Math function), "crashed"

objectVars == <<constructed, id_, name_, parent_, children_, components_,
                game_object_map, comp_id, comp_deletes, dtor_entries, stack, pc,
                last, updated>>
propVars == <<properties_, plast>>
heapVars == <<constructed, id_, name_, parent_, children_, components_,
              game_object_map, comp_id, comp_deletes, dtor_entries>>
trackVars == <<game_objects_, is_paused_, engine_updated, in_pause>>
runVars == <<is_running_, engine_pc, frames, engine_deleted>>
windowVars == <<window_, owns_window_, window_visible_, win_owner, win_open,
                win_event, win_deletes>>
engineVars == <<trackVars, runVars, windowVars>>
colorVars == <<cx, cy, cpre, cres, cop, cs>>

vectorVars == <<vec, vec2, vlast>>
mathVars == <<mlast, mstack, mpc>>
restVars == <<vectorVars, mathVars>>

vars == <<objectVars, propVars, engineVars, colorVars, restVars>>

\* The last call the application made: the member function, its object, its
\* pointer or id argument, its name argument, the children_ vector a removal
\* found, and the value returned.  For a set_parent(B), len is the length B's
\* children_ had on entry; a set_parent(nullptr) that directly follows a
\* set_parent(B) on the same object carries that len on and names B in old.
Call(op, self, arg, name, pre, len, old, ret) ==
    [op |-> op, self |-> self, arg |-> arg, name |-> name, pre |-> pre,
     len |-> len, old |-> old, ret |-> ret]

Other(op) == Call(op, NULL, NULL, "", <<>>, 0, NULL, NULL)

NoCall == Other("none")

\* std::vector::erase(begin() + i), with i counted from 1
Erase(s, i) == [k \in 1..(Len(s) - 1) |-> IF k < i THEN s[k] ELSE s[k + 1]]

\* ---- static registry ----
\* get_object_map() returns the static map BY VALUE: every caller works on a copy.
get_object_map == game_object_map

\* get_object_by_id: operator[] on that copy; a missing key reads as nullptr.
get_object_by_id(id) == get_object_map[id]

\* generate_uid: draws rng until the (copied) map has no entry for it.
generate_uid(rng) == get_object_map[rng] = NULL

\* No GameObject and no Component constructed yet.
InitObjects ==
    /\ constructed = {}
    /\ id_ = [o \in Obj |-> 0]
    /\ name_ = [o \in Obj |-> ""]
    /\ parent_ = [o \in Obj |-> NULL]
    /\ children_ = [o \in Obj |-> <<>>]
    /\ components_ = [o \in Obj |-> <<>>]
    /\ game_object_map = [i \in Ids |-> NULL]
    /\ comp_id = [c \in Comp |-> -1]
    /\ comp_deletes = [c \in Comp |-> 0]
    /\ dtor_entries = [o \in Obj |-> 0]
    /\ stack = <<>>
    /\ pc = "idle"
    /\ last = NoCall
    /\ updated = <<>>

Live(o) == o \in constructed /\ dtor_entries[o] = 0

\* GameObject::GameObject(name): the next free address, id_ = generate_uid(),
\* get_object_map()[id_] = this (an assignment into the returned copy).
Construct(o, name, rng) ==
    /\ pc = "idle"
    /\ o \notin constructed
    /\ \A q \in Obj : q < o => q \in constructed
    /\ generate_uid(rng)
    /\ constructed' = constructed \cup {o}
    /\ id_' = [id_ EXCEPT ![o] = rng]
    /\ name_' = [name_ EXCEPT ![o] = name]
    /\ parent_' = [parent_ EXCEPT ![o] = NULL]
    /\ LET copy == [get_object_map EXCEPT ![rng] = o]
       IN  game_object_map' = game_object_map
    /\ last' = Other("construct")
    /\ UNCHANGED <<children_, components_, comp_id, comp_deletes, dtor_entries,
                   stack, pc>>
    /\ UNCHANGED <<updated, propVars, engineVars, colorVars, restVars>>

\* set_parent as a version that also links the child into the new parent's
\* children_ and never unlinks it.
set_parent_append_only(self, parent) ==
    /\ parent_' = [parent_ EXCEPT ![self] = parent]
    /\ IF parent = NULL THEN UNCHANGED children_
       ELSE children_' = [children_ EXCEPT ![parent] = Append(@, self)]

\* GameObject::set_parent: one assignment.
set_parent(self, parent) ==
    /\ parent_' = [parent_ EXCEPT ![self] = parent]
    /\ UNCHANGED children_

SetParent(self, parent) ==
    /\ pc = "idle"
    /\ Live(self)
    /\ parent \in constructed \cup {NULL}
    /\ set_parent(self, parent)
    /\ last' = IF parent # NULL
               THEN Call("set_parent", self, parent, "", <<>>,
                         Len(children_[parent]), NULL, NULL)
               ELSE IF last.op = "set_parent" /\ last.self = self /\ last.arg # NULL
                    THEN Call("set_parent", self, NULL, "", <<>>,
                              last.len, last.arg, NULL)
                    ELSE Call("set_parent", self, NULL, "", <<>>, 0, NULL, NULL)
    /\ UNCHANGED <<constructed, id_, name_, components_, game_object_map,
                   comp_id, comp_deletes, dtor_entries, stack, pc>>
    /\ UNCHANGED <<updated, propVars, engineVars, colorVars, restVars>>

\* GameObject::add_child: the body is empty.
add_child(self, child) ==
    UNCHANGED <<parent_, children_>>

AddChild(self, child) ==
    /\ pc = "idle"
    /\ Live(self)
    /\ child \in constructed \cup {NULL}
    /\ add_child(self, child)
    /\ last' = Call("add_child", self, child, "", <<>>, 0, NULL, NULL)
    /\ UNCHANGED <<constructed, id_, name_, components_, game_object_map,
                   comp_id, comp_deletes, dtor_entries, stack, pc>>
    /\ UNCHANGED <<updated, propVars, engineVars, colorVars, restVars>>

RECURSIVE SumLen(_, _)
SumLen(f, n) == IF n = 0 THEN 0 ELSE Len(f[n]) + SumLen(f, n - 1)

\* entries held by all children_ vectors, and by all components_ vectors
TotalChildren == SumLen(children_, MaxObj)
TotalComponents == SumLen(components_, MaxObj)

\* GameObject::get_children returns &children_; the application appends through
\* it (no member function of GameObject ever adds to children_).
GetChildrenPushBack(self, child) ==
    /\ pc = "idle"
    /\ Live(self)
    /\ child \in constructed \cup {NULL}
    /\ TotalChildren < MaxChildren
    /\ children_' = [children_ EXCEPT ![self] = Append(@, child)]
    /\ last' = Other("get_children")
    /\ UNCHANGED <<constructed, id_, name_, parent_, components_, game_object_map,
                   comp_id, comp_deletes, dtor_entries, stack, pc>>
    /\ UNCHANGED <<updated, propVars, engineVars, colorVars, restVars>>

\* remove_child without its `break`: every match is erased.
RECURSIVE remove_child_no_break(_, _, _)
remove_child_no_break(ch, child, i) ==
    IF i > Len(ch) THEN [rtrn |-> NULL, children |-> ch]
    ELSE IF ch[i] = child
         THEN [rtrn |-> ch[i],
               children |-> remove_child_no_break(Erase(ch, i), child, i).children]
         ELSE remove_child_no_break(ch, child, i + 1)

\* The three removal loops: scan from index i, erase the first match and break.
RECURSIVE remove_child(_, _, _)
remove_child(ch, child, i) ==
    IF i > Len(ch) THEN [rtrn |-> NULL, children |-> ch]
    ELSE IF ch[i] = child
         THEN [rtrn |-> ch[i], children |-> Erase(ch, i)]
         ELSE remove_child(ch, child, i + 1)

RECURSIVE remove_child_by_name(_, _, _)
remove_child_by_name(ch, name, i) ==
    IF i > Len(ch) THEN [rtrn |-> NULL, children |-> ch]
    ELSE IF ch[i] # NULL /\ name_[ch[i]] = name
         THEN [rtrn |-> ch[i], children |-> Erase(ch, i)]
         ELSE remove_child_by_name(ch, name, i + 1)

RECURSIVE remove_child_by_id(_, _, _)
remove_child_by_id(ch, id, i) ==
    IF i > Len(ch) THEN [rtrn |-> NULL, children |-> ch]
    ELSE IF ch[i] # NULL /\ id_[ch[i]] = id
         THEN [rtrn |-> ch[i], children |-> Erase(ch, i)]
         ELSE remove_child_by_id(ch, id, i + 1)

RemoveFrame == <<constructed, id_, name_, parent_, components_, game_object_map,
                 comp_id, comp_deletes, dtor_entries, stack, pc, updated,
                 propVars, engineVars, colorVars, restVars>>

RemoveChild(self, child) ==
    /\ pc = "idle"
    /\ Live(self)
    /\ child \in constructed \cup {NULL}
    /\ LET r == remove_child(children_[self], child, 1)
       IN  /\ children_' = [children_ EXCEPT ![self] = r.children]
           /\ last' = Call("remove_child", self, child, "", children_[self], 0,
                           NULL, r.rtrn)
    /\ UNCHANGED RemoveFrame

RemoveChildByName(self, name) ==
    /\ pc = "idle"
    /\ Live(self)
    /\ LET r == remove_child_by_name(children_[self], name, 1)
       IN  /\ children_' = [children_ EXCEPT ![self] = r.children]
           /\ last' = Call("remove_child_by_name", self, NULL, name,
                           children_[self], 0, NULL, r.rtrn)
    /\ UNCHANGED RemoveFrame

RemoveChildById(self, id) ==
    /\ pc = "idle"
    /\ Live(self)
    /\ LET r == remove_child_by_id(children_[self], id, 1)
       IN  /\ children_' = [children_ EXCEPT ![self] = r.children]
           /\ last' = Call("remove_child_by_id", self, id, "", children_[self], 0,
                           NULL, r.rtrn)
    /\ UNCHANGED RemoveFrame

\* GameObject::get_child_by_name: the first non-null child with that name.
RECURSIVE get_child_by_name_from(_, _, _)
get_child_by_name_from(ch, name, i) ==
    IF i > Len(ch) THEN NULL
    ELSE IF ch[i] # NULL /\ name_[ch[i]] = name THEN ch[i]
         ELSE get_child_by_name_from(ch, name, i + 1)

get_child_by_name(self, name) == get_child_by_name_from(children_[self], name, 1)

\* GameObject::contains_child
contains_child(self, child) ==
    IF child = NULL THEN FALSE
    ELSE \E i \in 1..Len(children_[self]) : children_[self][i] = child

\* GameObject::get_parent
get_parent(self) == parent_[self]

\* Component::Component(id, name)
NewComponent(c, id) ==
    /\ pc = "idle"
    /\ comp_id[c] = -1
    /\ \A d \in Comp : d < c => comp_id[d] # -1
    /\ comp_id' = [comp_id EXCEPT ![c] = id]
    /\ last' = Other("new_component")
    /\ UNCHANGED <<constructed, id_, name_, parent_, children_, components_,
                   game_object_map, comp_deletes, dtor_entries, stack, pc>>
    /\ UNCHANGED <<updated, propVars, engineVars, colorVars, restVars>>

\* GameObject::add_component: pushes unless the GameObject registry has an entry
\* for the component's id.
add_component(self, component) ==
    IF component = NULL THEN UNCHANGED components_
    ELSE IF get_object_by_id(comp_id[component]) = NULL
         THEN components_' = [components_ EXCEPT ![self] = Append(@, component)]
         ELSE UNCHANGED components_

AddComponent(self, component) ==
    /\ pc = "idle"
    /\ Live(self)
    /\ component = NULL \/ (component \in Comp /\ comp_id[component] # -1)
    /\ TotalComponents < MaxComponents
    /\ add_component(self, component)
    /\ last' = Other("add_component")
    /\ UNCHANGED <<constructed, id_, name_, parent_, children_, game_object_map,
                   comp_id, comp_deletes, dtor_entries, stack, pc>>
    /\ UNCHANGED <<updated, propVars, engineVars, colorVars, restVars>>

\* ---- destruction ----
\* GameObject::destroy(): `delete this`, which enters ~GameObject.
Destroy(self) ==
    /\ pc = "idle"
    /\ Live(self)
    /\ stack' = <<self>>
    /\ pc' = "dtor"
    /\ last' = Other("destroy")
    /\ UNCHANGED <<constructed, id_, name_, parent_, children_, components_,
                   game_object_map, comp_id, comp_deletes, dtor_entries>>
    /\ UNCHANGED <<updated, propVars, engineVars, colorVars, restVars>>

Occurrences(s, x) == Cardinality({i \in 1..Len(s) : s[i] = x})

\* remove_all_components: `delete component` for every non-null entry; the vector
\* is not cleared.
remove_all_components(self) ==
    [c \in Comp |-> comp_deletes[c] + Occurrences(components_[self], c)]

\* remove_all_children: `delete child` for the first non-null entry; that
\* destructor never returns (see delete_this), so the loop goes no further.
RECURSIVE remove_all_children(_, _)
remove_all_children(ch, i) ==
    IF i > Len(ch) THEN NULL
    ELSE IF ch[i] # NULL THEN ch[i]
         ELSE remove_all_children(ch, i + 1)

\* The `delete this` that ends ~GameObject: the destructor is entered again on
\* the same object.
delete_this(self) == self

\* One run of the body of ~GameObject for the frame on top of the stack, up to
\* the nested delete it makes.  Deleting a Component that was already deleted
\* is undefined: the allocator aborts or the run goes on.  A nested delete for
\* which no stack is left overflows the stack.
Destructor ==
    /\ pc = "dtor"
    /\ LET self == stack[Len(stack)]
           par == parent_[self]
           deleted == remove_all_components(self)
           child == remove_all_children(
                        IF par = self
                        THEN remove_child(children_[self], self, 1).children
                        ELSE children_[self], 1)
           target == IF child # NULL THEN child ELSE delete_this(self)
       IN  /\ dtor_entries' = [dtor_entries EXCEPT ![self] = @ + 1]
           /\ IF par # NULL
              THEN /\ children_' = [children_ EXCEPT
                                      ![par] = remove_child(@, self, 1).children]
                   /\ parent_' = [parent_ EXCEPT ![self] = NULL]
              ELSE UNCHANGED <<parent_, children_>>
           /\ comp_deletes' = deleted
           /\ \/ /\ \E c \in Comp : deleted[c] > 1
                 /\ pc' = "crashed"
                 /\ UNCHANGED stack
              \/ /\ Len(stack) < MaxDepth
                 /\ stack' = Append(stack, target)
                 /\ UNCHANGED pc
              \/ /\ Len(stack) = MaxDepth
                 /\ pc' = "crashed"
                 /\ UNCHANGED stack
    /\ UNCHANGED <<constructed, id_, name_, components_, game_object_map,
                   comp_id, last>>
    /\ UNCHANGED <<updated, propVars, engineVars, colorVars, restVars>>

\* GameObject::remove_all_components called by the application: every non-null
\* entry is deleted and components_ stays as it is.  Deleting a Component that
\* was already deleted is undefined: the allocator aborts or the call returns.
\* The count of deletes is followed up to MaxDepth.
RemoveAllComponents(self) ==
    /\ pc = "idle"
    /\ Live(self)
    /\ \A c \in Comp : comp_deletes[c] < MaxDepth
    /\ LET deleted == remove_all_components(self)
       IN  /\ comp_deletes' = deleted
           /\ \/ /\ \E c \in Comp : deleted[c] > 1
                 /\ pc' = "crashed"
              \/ UNCHANGED pc
    /\ last' = Call("remove_all_components", self, NULL, "", <<>>, 0, NULL, NULL)
    /\ UNCHANGED <<constructed, id_, name_, parent_, children_, components_,
                   game_object_map, comp_id, dtor_entries, stack>>
    /\ UNCHANGED <<updated, propVars, engineVars, colorVars, restVars>>

\* GameObject::remove_all_children called by the application: `delete child`
\* on the first non-null entry enters ~GameObject, which does not return; with
\* no such entry the call returns and children_ stays as it is.
RemoveAllChildren(self) ==
    /\ pc = "idle"
    /\ Live(self)
    /\ LET child == remove_all_children(children_[self], 1)
       IN  IF child = NULL THEN UNCHANGED <<stack, pc>>
           ELSE stack' = <<child>> /\ pc' = "dtor"
    /\ last' = Call("remove_all_children", self, NULL, "", <<>>, 0, NULL, NULL)
    /\ UNCHANGED <<constructed, id_, name_, parent_, children_, components_,
                   game_object_map, comp_id, comp_deletes, dtor_entries>>
    /\ UNCHANGED <<updated, propVars, engineVars, colorVars, restVars>>

\* ---- per-frame dispatch ----
\* GameObject::update: Component::update on every non-null entry of components_,
\* front to back (i is the loop position, acc the calls made so far).
RECURSIVE update(_, _, _)
update(comps, i, acc) ==
    IF i > Len(comps) THEN acc
    ELSE IF comps[i] = NULL THEN update(comps, i + 1, acc)
         ELSE update(comps, i + 1, Append(acc, comps[i]))

Update(self) ==
    /\ pc = "idle"
    /\ Live(self)
    /\ updated' = update(components_[self], 1, <<>>)
    /\ last' = Call("update", self, NULL, "", <<>>, 0, NULL, NULL)
    /\ UNCHANGED <<constructed, id_, name_, parent_, children_, components_,
                   game_object_map, comp_id, comp_deletes, dtor_entries, stack, pc>>
    /\ UNCHANGED <<propVars, engineVars, colorVars, restVars>>

\* GameObject::fixed_update: the body is a TODO comment; no call is made.
fixed_update(comps) == <<>>

FixedUpdate(self) ==
    /\ pc = "idle"
    /\ Live(self)
    /\ updated' = fixed_update(components_[self])
    /\ last' = Call("fixed_update", self, NULL, "", <<>>, 0, NULL, NULL)
    /\ UNCHANGED <<constructed, id_, name_, parent_, children_, components_,
                   game_object_map, comp_id, comp_deletes, dtor_entries, stack, pc>>
    /\ UNCHANGED <<propVars, engineVars, colorVars, restVars>>

\* ---- copying ----
\* GameObject::clone(): `new GameObject(*this)`, which enters the copy
\* constructor with obj = *this.  A frame on the stack names its obj.
Clone(self) ==
    /\ pc = "idle"
    /\ Live(self)
    /\ stack' = <<self>>
    /\ pc' = "copy"
    /\ last' = Call("clone", self, NULL, "", <<>>, 0, NULL, NULL)
    /\ UNCHANGED <<constructed, id_, name_, parent_, children_, components_,
                   game_object_map, comp_id, comp_deletes, dtor_entries>>
    /\ UNCHANGED <<updated, propVars, engineVars, colorVars, restVars>>

\* GameObject::GameObject(const GameObject& obj): its first statement is
\* `new GameObject(obj)`, the copy constructor again with the same obj; the
\* set_name and set_parent after it are never reached.  A nested call for
\* which no stack is left overflows the stack.
CopyConstructor ==
    /\ pc = "copy"
    /\ LET obj == stack[Len(stack)]
       IN  \/ /\ Len(stack) < MaxDepth
              /\ stack' = Append(stack, obj)
              /\ UNCHANGED pc
           \/ /\ Len(stack) = MaxDepth
              /\ pc' = "crashed"
              /\ UNCHANGED stack
    /\ UNCHANGED <<constructed, id_, name_, parent_, children_, components_,
                   game_object_map, comp_id, comp_deletes, dtor_entries, last>>
    /\ UNCHANGED <<updated, propVars, engineVars, colorVars, restVars>>

\* ---- Component properties ----
\* A property* returned by a lookup is named by the position in properties_
\* it was read from (NULL for nullptr); an entry of properties_ is the property
\* it points to, or NullProperty for a nullptr entry.
PropNames == {"", "n"}
PropIds == 0..(MaxId - 1)
PropTypes == {"FLOAT", "COLOR"}
PropValues == 0..1
Property == [name : PropNames, id : PropIds, type : PropTypes, value : PropValues]
NullProperty == [name |-> "", id |-> 0, type |-> "nullptr", value |-> 0]

\* A call on the component: the key looked up, the property passed in, the
\* pointer returned, the error raised ("": none) and properties_ on entry.
PCall(op, name, id, value, ret, err, pre) ==
    [op |-> op, name |-> name, id |-> id, value |-> value, ret |-> ret,
     err |-> err, pre |-> pre]

NoPCall == PCall("none", "", 0, NullProperty, NULL, "", <<>>)

\* Component::get_property: nullptr for the empty name, else the first
\* non-null entry with that name (i is the loop position).
RECURSIVE get_property(_, _, _)
get_property(props, property_name, i) ==
    IF property_name = "" THEN NULL
    ELSE IF i > Len(props) THEN NULL
    ELSE IF props[i] = NullProperty \/ props[i].name # property_name
         THEN get_property(props, property_name, i + 1)
         ELSE i

\* Component::get_property_by_id: nullptr for id 0, else the first non-null
\* entry with that id.
RECURSIVE get_property_by_id(_, _, _)
get_property_by_id(props, property_id, i) ==
    IF property_id = 0 THEN NULL
    ELSE IF i > Len(props) THEN NULL
    ELSE IF props[i] = NullProperty \/ props[i].id # property_id
         THEN get_property_by_id(props, property_id, i + 1)
         ELSE i

\* Component::set_property: the body is empty.
set_property(props, property_name, value) == props

GetProperty(property_name) ==
    /\ plast' = PCall("get_property", property_name, 0, NullProperty,
                      get_property(properties_, property_name, 1), "",
                      properties_)
    /\ UNCHANGED <<properties_, objectVars, engineVars, colorVars, restVars>>

GetPropertyById(property_id) ==
    /\ plast' = PCall("get_property_by_id", "", property_id, NullProperty,
                      get_property_by_id(properties_, property_id, 1), "",
                      properties_)
    /\ UNCHANGED <<properties_, objectVars, engineVars, colorVars, restVars>>

\* set_property(name, value) directly followed by get_property(name), whose
\* result is kept in ret.
SetProperty(property_name, value) ==
    /\ properties_' = set_property(properties_, property_name, value)
    /\ plast' = PCall("set_property", property_name, 0, value,
                      get_property(properties_', property_name, 1), "",
                      properties_)
    /\ UNCHANGED <<objectVars, engineVars, colorVars, restVars>>

\* ---- Engine ----
\* Engine::addGameObject
addGameObject(objs, gameObject) ==
    IF gameObject # NULL THEN Append(objs, gameObject) ELSE objs

\* std::find over the vector: the first position holding x, 0 for end()
RECURSIVE Find(_, _, _)
Find(objs, x, i) ==
    IF i > Len(objs) THEN 0
    ELSE IF objs[i] = x THEN i
    ELSE Find(objs, x, i + 1)

\* Engine::removeGameObject
removeGameObject(objs, gameObject) ==
    IF gameObject = NULL THEN objs
    ELSE LET it == Find(objs, gameObject, 1)
         IN  IF it # 0 THEN Erase(objs, it) ELSE objs

\* The loop of Engine::update: GameObject::update on every non-null entry,
\* front to back; childs are the GameObjects called so far, comps the
\* Component::update calls those made.
RECURSIVE engine_update(_, _, _)
engine_update(objs, i, acc) ==
    IF i > Len(objs) THEN acc
    ELSE IF objs[i] = NULL THEN engine_update(objs, i + 1, acc)
         ELSE engine_update(objs, i + 1,
                  [childs |-> Append(acc.childs, objs[i]),
                   comps |-> acc.comps \o update(components_[objs[i]], 1, <<>>)])

\* The first non-null entry of Engine's vector: the one the loops of stop()
\* and ~Engine() reach first.
FirstTracked == remove_all_children(game_objects_, 1)

\* Between calls the application may call the engine; while start() runs, the
\* only application code is a Component::update override, reached through a
\* tracked GameObject of an engine that is not paused.
Callable ==
    /\ pc = "idle"
    /\ \/ engine_pc = "idle"
       \/ /\ engine_pc \in {"loop", "loop_nowindow"}
          /\ ~is_paused_
          /\ FirstTracked # NULL

AddGameObject(gameObject) ==
    /\ Callable
    /\ gameObject \in constructed \cup {NULL}
    /\ Len(game_objects_) < MaxTracked
    /\ game_objects_' = addGameObject(game_objects_, gameObject)
    /\ last' = Other("addGameObject")
    /\ UNCHANGED <<heapVars, stack, pc, updated>>
    /\ UNCHANGED <<is_paused_, engine_updated, in_pause, runVars, windowVars>>
    /\ UNCHANGED <<propVars, colorVars, restVars>>

RemoveGameObject(gameObject) ==
    /\ Callable
    /\ gameObject \in constructed \cup {NULL}
    /\ game_objects_' = removeGameObject(game_objects_, gameObject)
    /\ last' = Other("removeGameObject")
    /\ UNCHANGED <<heapVars, stack, pc, updated>>
    /\ UNCHANGED <<is_paused_, engine_updated, in_pause, runVars, windowVars>>
    /\ UNCHANGED <<propVars, colorVars, restVars>>

\* pause() as a function that leaves the flag alone
pause_without_effect == is_paused_

\* Engine::pause: the value is_paused_ has afterwards
pause == TRUE

\* Engine::resume
resume == FALSE

Pause ==
    /\ Callable
    /\ is_paused_' = pause
    /\ in_pause' = TRUE
    /\ last' = Other("pause")
    /\ UNCHANGED <<heapVars, stack, pc, updated>>
    /\ UNCHANGED <<game_objects_, engine_updated, runVars, windowVars>>
    /\ UNCHANGED <<propVars, colorVars, restVars>>

\* While the engine is paused inside start() no application code runs, so
\* resume() comes from outside the loop only.
Resume ==
    /\ pc = "idle"
    /\ engine_pc = "idle"
    /\ is_paused_' = resume
    /\ in_pause' = FALSE
    /\ last' = Other("resume")
    /\ UNCHANGED <<heapVars, stack, pc, updated>>
    /\ UNCHANGED <<game_objects_, engine_updated, runVars, windowVars>>
    /\ UNCHANGED <<propVars, colorVars, restVars>>

\* Window::pollEvents on window w: a Closed event in the queue closes it.
pollEvents(w) ==
    IF win_event[w]
    THEN /\ win_open' = [win_open EXCEPT ![w] = FALSE]
         /\ win_event' = [win_event EXCEPT ![w] = FALSE]
    ELSE UNCHANGED <<win_open, win_event>>

\* Engine::update: returns at once when paused; else GameObject::update on
\* every tracked object, then the window's events are polled.
Engine_update ==
    IF is_paused_
    THEN /\ engine_updated' = <<>>
         /\ updated' = <<>>
         /\ UNCHANGED <<win_open, win_event>>
    ELSE /\ LET r == engine_update(game_objects_, 1,
                                   [childs |-> <<>>, comps |-> <<>>])
            IN  /\ engine_updated' = r.childs
                /\ updated' = r.comps
         /\ IF window_ # NULL THEN pollEvents(window_)
            ELSE UNCHANGED <<win_open, win_event>>

\* window_ points to a Window that was deleted.
DanglingWindow == window_ # NULL /\ win_deletes[window_] > 0

\* A call through a dangling window_ may abort the program.
UseAfterDelete ==
    /\ DanglingWindow
    /\ pc' = "crashed"
    /\ UNCHANGED <<heapVars, stack, last, updated, engineVars>>

\* Engine::update called by the application.
EngineUpdate ==
    /\ Callable
    /\ \/ /\ Engine_update
          /\ last' = Other("engine_update")
          /\ UNCHANGED <<heapVars, stack, pc>>
          /\ UNCHANGED <<game_objects_, is_paused_, in_pause, runVars>>
          /\ UNCHANGED <<window_, owns_window_, window_visible_, win_owner,
                         win_deletes>>
       \/ ~is_paused_ /\ UseAfterDelete
    /\ UNCHANGED <<propVars, colorVars, restVars>>

\* Engine::setWindowVisible
SetWindowVisible(visible) ==
    /\ Callable
    /\ window_visible_' = visible
    /\ last' = Other("setWindowVisible")
    /\ UNCHANGED <<heapVars, stack, pc, updated, trackVars, runVars>>
    /\ UNCHANGED <<window_, owns_window_, win_owner, win_open, win_event,
                   win_deletes>>
    /\ UNCHANGED <<propVars, colorVars, restVars>>

\* The next Window address `new Window()` returns.
NextWindow(w) ==
    /\ win_owner[w] = "none"
    /\ \A v \in Win : v < w => win_owner[v] # "none"

\* `new Window()` in the application; the constructor opens the window.
NewWindow(w) ==
    /\ Callable
    /\ NextWindow(w)
    /\ win_owner' = [win_owner EXCEPT ![w] = "app"]
    /\ win_open' = [win_open EXCEPT ![w] = TRUE]
    /\ last' = Other("new_window")
    /\ UNCHANGED <<heapVars, stack, pc, updated, trackVars, runVars>>
    /\ UNCHANGED <<window_, owns_window_, window_visible_, win_event, win_deletes>>
    /\ UNCHANGED <<propVars, colorVars, restVars>>

\* `delete w`: ~Window closes the window.
delete_window(w, deletes, open) ==
    [deletes |-> [deletes EXCEPT ![w] = @ + 1],
     open |-> [open EXCEPT ![w] = FALSE]]

\* Engine::setWindow
setWindow(window) ==
    IF window = NULL
    THEN UNCHANGED <<window_, owns_window_, win_deletes, win_open>>
    ELSE /\ IF owns_window_ /\ window_ # NULL
            THEN LET d == delete_window(window_, win_deletes, win_open)
                 IN  win_deletes' = d.deletes /\ win_open' = d.open
            ELSE UNCHANGED <<win_deletes, win_open>>
         /\ window_' = window
         /\ owns_window_' = FALSE

\* The application hands over nullptr, a Window of its own or getWindow().
SetWindow(window) ==
    /\ Callable
    /\ \/ window = NULL
       \/ window \in Win /\ win_owner[window] = "app" /\ win_deletes[window] = 0
       \/ window # NULL /\ window = window_ /\ win_deletes[window] = 0
    /\ setWindow(window)
    /\ last' = Call("setWindow", NULL, window, "",
                    <<window_, IF owns_window_ THEN 1 ELSE 0>>, 0, NULL, NULL)
    /\ UNCHANGED <<heapVars, stack, pc, updated, trackVars, runVars>>
    /\ UNCHANGED <<window_visible_, win_owner, win_event>>
    /\ UNCHANGED <<propVars, colorVars, restVars>>

\* The user asks a window to close: a Closed event enters its queue.
CloseEvent(w) ==
    /\ pc = "idle"
    /\ win_owner[w] # "none" /\ win_open[w]
    /\ ~win_event[w]
    /\ win_event' = [win_event EXCEPT ![w] = TRUE]
    /\ UNCHANGED <<heapVars, stack, pc, last, updated, trackVars, runVars>>
    /\ UNCHANGED <<window_, owns_window_, window_visible_, win_owner, win_open,
                   win_deletes>>
    /\ UNCHANGED <<propVars, colorVars, restVars>>

\* Engine::start up to its loop, entered with the windows' open flags `open`:
\* a Window is made when there is none and the window is to be visible.
start(open) ==
    /\ IF window_ = NULL /\ window_visible_
       THEN \E w \in Win :
                /\ NextWindow(w)
                /\ win_owner' = [win_owner EXCEPT ![w] = "engine"]
                /\ win_open' = [open EXCEPT ![w] = TRUE]
                /\ window_' = w
                /\ owns_window_' = TRUE
       ELSE /\ win_open' = open
            /\ UNCHANGED <<win_owner, window_, owns_window_>>
    /\ is_running_' = TRUE
    /\ engine_pc' = IF window_' = NULL THEN "loop_nowindow" ELSE "loop"

Start ==
    /\ pc = "idle"
    /\ engine_pc = "idle"
    /\ start(win_open)
    /\ last' = Other("start")
    /\ UNCHANGED <<heapVars, stack, pc, updated, trackVars, frames, engine_deleted>>
    /\ UNCHANGED <<window_visible_, win_event, win_deletes>>
    /\ UNCHANGED <<propVars, colorVars, restVars>>

\* The condition of the loop start() is in.
LoopCondition ==
    is_running_ /\ (IF engine_pc = "loop_nowindow" THEN TRUE ELSE win_open[window_])

\* One evaluation of the loop condition of start() and, when it holds, one
\* iteration: update, then render (which changes no state here).  When it
\* fails, start() runs on_destroy and returns.
Frame ==
    /\ pc = "idle"
    /\ engine_pc \in {"loop", "loop_nowindow"}
    /\ \/ /\ LoopCondition
          /\ Engine_update
          /\ frames' = 1 - frames
          /\ last' = Other("frame")
          /\ UNCHANGED <<heapVars, stack, pc>>
          /\ UNCHANGED <<game_objects_, is_paused_, in_pause, is_running_,
                         engine_pc, engine_deleted>>
          /\ UNCHANGED <<window_, owns_window_, window_visible_, win_owner,
                         win_deletes>>
       \/ /\ ~LoopCondition
          /\ engine_pc' = "idle"
          /\ last' = Other("start_returned")
          /\ UNCHANGED <<heapVars, stack, pc, updated, trackVars>>
          /\ UNCHANGED <<is_running_, frames, engine_deleted, windowVars>>
       \/ engine_pc = "loop" /\ UseAfterDelete
    /\ UNCHANGED <<propVars, colorVars, restVars>>

\* `delete child` in stop() and ~Engine(): ~GameObject is entered and, as in
\* Destroy, never returns; the entry of the vector stays as it is (the loops
\* assign nullptr to their copy of the pointer only).
delete_child(child) ==
    /\ engine_deleted' = [engine_deleted EXCEPT ![child] = @ + 1]
    /\ stack' = <<child>>
    /\ pc' = "dtor"

\* Engine::stop
Stop ==
    /\ Callable
    /\ last' = Other("stop")
    /\ IF ~is_running_
       THEN UNCHANGED <<stack, pc, runVars, windowVars>>
       ELSE IF FirstTracked # NULL
       THEN /\ delete_child(FirstTracked)
            /\ UNCHANGED <<is_running_, engine_pc, frames, windowVars>>
       ELSE /\ is_running_' = FALSE
            /\ win_open' = IF window_ # NULL
                           THEN [win_open EXCEPT ![window_] = FALSE]
                           ELSE win_open
            /\ UNCHANGED <<stack, pc, engine_pc, frames, engine_deleted>>
            /\ UNCHANGED <<window_, owns_window_, window_visible_, win_owner,
                           win_event, win_deletes>>
    /\ UNCHANGED <<heapVars, updated, trackVars>>
    /\ UNCHANGED <<propVars, colorVars, restVars>>

\* Engine::restart: stop(), then start()
Restart ==
    /\ pc = "idle"
    /\ engine_pc = "idle"
    /\ last' = Other("restart")
    /\ IF is_running_ /\ FirstTracked # NULL
       THEN /\ delete_child(FirstTracked)
            /\ UNCHANGED <<is_running_, engine_pc, frames, windowVars>>
       ELSE /\ start(IF is_running_ /\ window_ # NULL
                     THEN [win_open EXCEPT ![window_] = FALSE]
                     ELSE win_open)
            /\ UNCHANGED <<stack, pc, frames, engine_deleted>>
            /\ UNCHANGED <<window_visible_, win_event, win_deletes>>
    /\ UNCHANGED <<heapVars, updated, trackVars>>
    /\ UNCHANGED <<propVars, colorVars, restVars>>

\* Engine::~Engine
EngineDestructor ==
    /\ pc = "idle"
    /\ engine_pc = "idle"
    /\ last' = Other("~Engine")
    /\ IF FirstTracked # NULL
       THEN /\ delete_child(FirstTracked)
            /\ UNCHANGED <<is_running_, engine_pc, frames, windowVars>>
       ELSE /\ IF owns_window_ /\ window_ # NULL
               THEN LET d == delete_window(window_, win_deletes, win_open)
                    IN  win_deletes' = d.deletes /\ win_open' = d.open
               ELSE UNCHANGED <<win_deletes, win_open>>
            /\ window_' = NULL
            /\ engine_pc' = "destroyed"
            /\ UNCHANGED <<stack, pc, is_running_, frames, engine_deleted>>
            /\ UNCHANGED <<owns_window_, window_visible_, win_owner, win_event>>
    /\ UNCHANGED <<heapVars, updated, trackVars>>
    /\ UNCHANGED <<propVars, colorVars, restVars>>

\* ---- Color ----
\* uint8_t: a value converted to it is taken modulo 2^8
ToUint8(v) == v % Uint8Range

\* the channels of a Color
Channels == {"r", "g", "b", "a"}

\* qadd without the saturation test: the sum is converted to uint8_t as it is.
qadd_wrapping(a, b) == ToUint8(a + b)

\* Color::qadd: both operands are promoted to int; the result is converted back.
qadd(a, b) == ToUint8(IF a + b > 255 THEN 255 ELSE a + b)

\* Color::qsub
qsub(a, b) == ToUint8(IF a - b < 0 THEN 0 ELSE a - b)

\* Color::operator+=, Color::operator-=: the value *this has afterwards
PlusAssign(this, other) ==
    [r |-> qadd(this.r, other.r), g |-> qadd(this.g, other.g),
     b |-> qadd(this.b, other.b), a |-> qadd(this.a, other.a)]

MinusAssign(this, other) ==
    [r |-> qsub(this.r, other.r), g |-> qsub(this.g, other.g),
     b |-> qsub(this.b, other.b), a |-> qsub(this.a, other.a)]

\* friend operator+ and operator-: lhs is a copy; lhs += rhs; return lhs
Plus(lhs, rhs) == PlusAssign(lhs, rhs)

Minus(lhs, rhs) == MinusAssign(lhs, rhs)

\* Each operator is applied once to the operands drawn at the start.
ColorPlus ==
    /\ cop = "none"
    /\ cres' = Plus(cx, cy)
    /\ cop' = "+"
    /\ UNCHANGED <<cx, cy, cpre, cs, objectVars, propVars, engineVars, restVars>>

ColorMinus ==
    /\ cop = "none"
    /\ cres' = Minus(cx, cy)
    /\ cop' = "-"
    /\ UNCHANGED <<cx, cy, cpre, cs, objectVars, propVars, engineVars, restVars>>

ColorPlusAssign ==
    /\ cop = "none"
    /\ cpre' = cx
    /\ cx' = PlusAssign(cx, cy)
    /\ cres' = cx'
    /\ cop' = "+="
    /\ UNCHANGED <<cy, cs, objectVars, propVars, engineVars, restVars>>

ColorMinusAssign ==
    /\ cop = "none"
    /\ cpre' = cx
    /\ cx' = MinusAssign(cx, cy)
    /\ cres' = cx'
    /\ cop' = "-="
    /\ UNCHANGED <<cy, cs, objectVars, propVars, engineVars, restVars>>

\* Color::operator*=(float): the value *this has afterwards.  A channel times
\* the scalar is compared with 255.0f and the smaller one truncated to uint8_t.
TimesAssignScalar(this, scalar) ==
    LET s == IF 0 > scalar THEN 0 ELSE scalar
        ch(c) == ToUint8(IF c * s > 255 * ScalarUnit THEN 255
                         ELSE (c * s) \div ScalarUnit)
    IN  [r |-> ch(this.r), g |-> ch(this.g), b |-> ch(this.b), a |-> ch(this.a)]

\* Color::operator/=(float)
DivAssignScalar(this, scalar) ==
    LET ch(c) == ToUint8(IF c * ScalarUnit > 255 * scalar THEN 255
                         ELSE (c * ScalarUnit) \div scalar)
    IN  IF scalar <= Epsilon
        THEN IF scalar = 0 THEN [r |-> 255, g |-> 255, b |-> 255, a |-> 255]
             ELSE this
        ELSE [r |-> ch(this.r), g |-> ch(this.g), b |-> ch(this.b),
              a |-> ch(this.a)]

\* friend operator*(Color lhs, float scalar): lhs is a copy
ColorTimesScalar ==
    /\ cop = "none"
    /\ cres' = TimesAssignScalar(cx, cs)
    /\ cop' = "*"
    /\ UNCHANGED <<cx, cy, cpre, cs, objectVars, propVars, engineVars, restVars>>

\* friend operator/(Color lhs, float scalar)
ColorDivScalar ==
    /\ cop = "none"
    /\ cres' = DivAssignScalar(cx, cs)
    /\ cop' = "/"
    /\ UNCHANGED <<cx, cy, cpre, cs, objectVars, propVars, engineVars, restVars>>

\* ---- Vector ----
\* component values and divisors whose quotients are exact
VecValues == {-6, 0, 12}
Divisors == {0, 2, 3}
\* size_t indices: below, at and above the dimension
VecIndex == 0..(VecDim + 1)

\* what a float division by zero yields (an infinity or a NaN)
Infinity == 1000000

\* T / T
Quotient(a, b) == IF b = 0 THEN Infinity ELSE a \div b

\* A call of a Vector operator: its index, value or scalar arguments, the
\* result, the exception thrown ("": none) and both operands on entry.
VCall(op, index, val, ret, err) ==
    [op |-> op, index |-> index, val |-> val, ret |-> ret, err |-> err,
     pre |-> vec, pre2 |-> vec2]

\* operator[] with the test `index > N`: index N passes and lands on the
\* last component.
subscript_off_by_one(index) ==
    IF index > VecDim THEN [err |-> "out_of_range", at |-> 0]
    ELSE [err |-> "", at |-> IF index = VecDim THEN VecDim ELSE index + 1]

\* Vector::operator[] (both forms): throws for index >= N, else a reference
\* to components[index], which is position index + 1 of the sequence.
subscript(index) ==
    IF index >= VecDim THEN [err |-> "out_of_range", at |-> 0]
    ELSE [err |-> "", at |-> index + 1]

\* __getitem__: return v[i]
VecGetItem(i) ==
    /\ vlast.op = "none"
    /\ LET ref == subscript(i)
       IN  vlast' = VCall("getitem", i, 0,
                          IF ref.err = "" THEN <<vec[ref.at]>> ELSE <<>>, ref.err)
    /\ UNCHANGED <<vec, vec2, objectVars, propVars, engineVars, colorVars, mathVars>>

\* __setitem__: v[i] = val
VecSetItem(i, val) ==
    /\ vlast.op = "none"
    /\ LET ref == subscript(i)
       IN  /\ vec' = IF ref.err = "" THEN [vec EXCEPT ![ref.at] = val] ELSE vec
           /\ vlast' = VCall("setitem", i, val, <<>>, ref.err)
    /\ UNCHANGED <<vec2, objectVars, propVars, engineVars, colorVars, mathVars>>

\* Vector::operator/(T scalar): the loop from component i on; the zero test is
\* made inside the loop, before each division.
RECURSIVE div_scalar(_, _, _, _)
div_scalar(components, scalar, i, result) ==
    IF i > Len(components) THEN [err |-> "", result |-> result]
    ELSE IF scalar = 0 THEN [err |-> "runtime_error", result |-> <<>>]
    ELSE div_scalar(components, scalar, i + 1,
                    Append(result, Quotient(components[i], scalar)))

\* Vector division without the zero test.
RECURSIVE div_vector_unchecked(_, _, _, _)
div_vector_unchecked(components, other, i, result) ==
    IF i > Len(components) THEN [err |-> "", result |-> result]
    ELSE div_vector_unchecked(components, other, i + 1,
                              Append(result, Quotient(components[i], other[i])))

\* Vector::operator/(const Vector& other)
RECURSIVE div_vector(_, _, _, _)
div_vector(components, other, i, result) ==
    IF i > Len(components) THEN [err |-> "", result |-> result]
    ELSE IF other[i] = 0 THEN [err |-> "runtime_error", result |-> <<>>]
    ELSE div_vector(components, other, i + 1,
                    Append(result, Quotient(components[i], other[i])))

VecDivScalar(scalar) ==
    /\ vlast.op = "none"
    /\ LET r == div_scalar(vec, scalar, 1, <<>>)
       IN  vlast' = VCall("div_scalar", 0, scalar, r.result, r.err)
    /\ UNCHANGED <<vec, vec2, objectVars, propVars, engineVars, colorVars, mathVars>>

VecDivVector ==
    /\ vlast.op = "none"
    /\ LET r == div_vector(vec, vec2, 1, <<>>)
       IN  vlast' = VCall("div_vector", 0, 0, r.result, r.err)
    /\ UNCHANGED <<vec, vec2, objectVars, propVars, engineVars, colorVars, mathVars>>

\* ---- Math ----
\* float arguments, counted in tenths: -3.7 ... 4.0
MathValues == {-37, -35, -34, -32, -30, -5, 0, 5, 30, 32, 34, 35, 37, 40}
MathFunctions == {"floor", "ceil", "round"}

\* A call of Math::floor, Math::ceil or Math::round from the application.
MathCall(fn, value) ==
    /\ mpc = "idle"
    /\ mlast.fn = "none"
    /\ mlast' = [fn |-> fn, value |-> value, ret |-> 0]
    /\ mstack' = <<value>>
    /\ mpc' = "call"
    /\ UNCHANGED <<objectVars, propVars, engineVars, colorVars, vectorVars>>

\* The body of Math::floor (ceil, round): `return (float) floor(value);`.  In
\* a member of Math the name floor is Math::floor itself, so the body calls
\* the function it is in, with the same argument, before it can return.  The
\* nested call takes a new stack frame, overflows the stack when none is left,
\* or, compiled as a jump, reuses the frame and runs for ever.
MathBody ==
    /\ mpc = "call"
    /\ LET value == mstack[Len(mstack)]
       IN  \/ /\ Len(mstack) < MaxDepth
              /\ mstack' = Append(mstack, value)
              /\ UNCHANGED mpc
           \/ /\ Len(mstack) = MaxDepth
              /\ mpc' = "crashed"
              /\ UNCHANGED mstack
           \/ UNCHANGED <<mstack, mpc>>
    /\ UNCHANGED <<mlast, objectVars, propVars, engineVars, colorVars, vectorVars>>

\* ---- initial states ----
\* Color(): r, g, b are 0 and a is 255
DefaultColor == [r |-> 0, g |-> 0, b |-> 0, a |-> 255]

InitProps == properties_ = <<>> /\ plast = NoPCall

\* Engine::Engine()
InitEngine ==
    /\ game_objects_ = <<>> /\ is_paused_ = FALSE /\ engine_updated = <<>>
    /\ in_pause = FALSE
    /\ is_running_ = FALSE
    /\ window_ = NULL /\ owns_window_ = TRUE /\ window_visible_ = TRUE
    /\ engine_pc = "idle"
    /\ frames = 0
    /\ engine_deleted = [o \in Obj |-> 0]
    /\ win_owner = [w \in Win |-> "none"]
    /\ win_open = [w \in Win |-> FALSE]
    /\ win_event = [w \in Win |-> FALSE]
    /\ win_deletes = [w \in Win |-> 0]

InitColors ==
    /\ cx = DefaultColor /\ cy = DefaultColor
    /\ cpre = DefaultColor /\ cres = DefaultColor
    /\ cop = "none"
    /\ cs = ScalarUnit

\* Vector(): zero-initialized
ZeroVector == [k \in 1..VecDim |-> 0]

InitVectors ==
    /\ vec = ZeroVector /\ vec2 = ZeroVector
    /\ vlast = [op |-> "none", index |-> 0, val |-> 0, ret |-> <<>>, err |-> "",
                pre |-> ZeroVector, pre2 |-> ZeroVector]

InitMath ==
    /\ mlast = [fn |-> "none", value |-> 0, ret |-> 0]
    /\ mstack = <<>>
    /\ mpc = "idle"

InitRest == InitVectors /\ InitMath

Init == InitObjects /\ InitProps /\ InitEngine /\ InitColors /\ InitRest

\* Vector(args...): a Vector of VecValues and one of Divisors
InitVector ==
    /\ InitObjects /\ InitProps /\ InitEngine /\ InitColors /\ InitMath
    /\ vec \in [1..VecDim -> VecValues]
    /\ vec2 \in [1..VecDim -> Divisors]
    /\ vlast = [op |-> "none", index |-> 0, val |-> 0, ret |-> <<>>, err |-> "",
                pre |-> vec, pre2 |-> vec2]

\* A component whose properties_ holds up to MaxProps entries.
PropLists == UNION {[1..n -> Property \cup {NullProperty}] : n \in 0..MaxProps}

InitProp ==
    /\ InitObjects /\ InitEngine /\ InitColors /\ InitRest
    /\ properties_ \in PropLists
    /\ plast = NoPCall

\* Two Colors with every channel drawn from ChannelValues.
Colors == [r : ChannelValues, g : ChannelValues, b : ChannelValues,
           a : ChannelValues]

InitColor ==
    /\ InitObjects /\ InitProps /\ InitEngine /\ InitRest
    /\ cx \in Colors /\ cy \in Colors
    /\ cpre = cx /\ cres = DefaultColor
    /\ cop = "none"
    /\ cs = ScalarUnit

\* A Color and a scalar drawn from ScalarValues.
InitScalar ==
    /\ InitObjects /\ InitProps /\ InitEngine /\ InitRest
    /\ cx \in Colors /\ cy = DefaultColor
    /\ cpre = cx /\ cres = DefaultColor
    /\ cop = "none"
    /\ cs \in ScalarValues

\* The hierarchy calls of GameObject.
NextTree ==
    \/ \E o \in Obj, n \in Names, r \in Ids : Construct(o, n, r)
    \/ \E o \in Obj, p \in Ptr : SetParent(o, p)
    \/ \E o \in Obj, p \in Ptr : AddChild(o, p)
    \/ \E o \in Obj, p \in Ptr : GetChildrenPushBack(o, p)
    \/ \E o \in Obj, p \in Ptr : RemoveChild(o, p)
    \/ \E o \in Obj, n \in Names : RemoveChildByName(o, n)
    \/ \E o \in Obj, i \in Ids : RemoveChildById(o, i)

\* An application that builds and edits the hierarchy.  destroy() never returns
\* to its caller (see Destructor), so no hierarchy call ever follows one: the
\* states in which hierarchy calls run are those of an application that never
\* destroys.
SpecTree == Init /\ [][NextTree]_vars

\* The calls that decide an object's lifetime: construction, attachment of
\* parents, children and components, and destruction.  Every children_ vector
\* a removal can leave is also one the application can build by appending, and
\* add_child changes nothing, so those calls add no object state to these.
\* No call here reads a name, so every GameObject keeps the default one.
Next ==
    \/ \E o \in Obj, r \in Ids : Construct(o, "", r)
    \/ \E o \in Obj, p \in Ptr : SetParent(o, p)
    \/ \E o \in Obj, p \in Ptr : GetChildrenPushBack(o, p)
    \/ \E c \in Comp, i \in Ids : NewComponent(c, i)
    \/ \E o \in Obj, c \in Comp \cup {NULL} : AddComponent(o, c)
    \/ \E o \in Obj : Destroy(o)
    \/ Destructor
    \/ \E o \in Obj : Clone(o)
    \/ CopyConstructor

Spec == Init /\ [][Next]_vars

\* An application that attaches components and runs the per-frame calls.
NextComp ==
    \/ \E o \in Obj, r \in Ids : Construct(o, "", r)
    \/ \E o \in Obj, p \in Ptr : GetChildrenPushBack(o, p)
    \/ \E c \in Comp, i \in Ids : NewComponent(c, i)
    \/ \E o \in Obj, c \in Comp \cup {NULL} : AddComponent(o, c)
    \/ \E o \in Obj : Update(o)
    \/ \E o \in Obj : FixedUpdate(o)

SpecComp == Init /\ [][NextComp]_vars

\* An application that empties a GameObject of its components and children and
\* goes on using it.
NextClear ==
    \/ \E o \in Obj : Construct(o, "", 0)
    \/ \E o \in Obj, p \in Ptr : GetChildrenPushBack(o, p)
    \/ \E c \in Comp : NewComponent(c, 1)
    \/ \E o \in Obj, c \in Comp \cup {NULL} : AddComponent(o, c)
    \/ \E o \in Obj : RemoveAllComponents(o)
    \/ \E o \in Obj : RemoveAllChildren(o)
    \/ \E o \in Obj : Update(o)
    \/ Destructor

SpecClear == Init /\ [][NextClear]_vars

\* The property calls on one component.
NextProp ==
    \/ \E n \in PropNames : GetProperty(n)
    \/ \E i \in PropIds : GetPropertyById(i)
    \/ \E n \in PropNames, v \in Property : SetProperty(n, v)

SpecProp == InitProp /\ [][NextProp]_vars

\* An application that registers GameObjects with the Engine and runs frames.
NextEngine ==
    \/ \E o \in Obj, r \in Ids : Construct(o, "", r)
    \/ \E p \in Ptr : AddGameObject(p)
    \/ \E p \in Ptr : RemoveGameObject(p)
    \/ Pause
    \/ Resume
    \/ EngineUpdate

SpecEngine == Init /\ [][NextEngine]_vars

\* An application that registers GameObjects, hands over windows, starts,
\* stops and restarts the engine and destroys it, with a user who may close
\* any open window.
NextLoop ==
    \/ \E o \in Obj : Construct(o, "", 0)
    \/ \E p \in Ptr : AddGameObject(p)
    \/ Pause
    \/ Resume
    \/ \E b \in BOOLEAN : SetWindowVisible(b)
    \/ \E w \in Win : NewWindow(w)
    \/ \E w \in Win \cup {NULL} : SetWindow(w)
    \/ \E w \in Win : CloseEvent(w)
    \/ Start
    \/ Frame
    \/ Stop
    \/ Restart
    \/ EngineDestructor
    \/ Destructor

SpecLoop == Init /\ [][NextLoop]_vars

\* A run of start(): the application registers GameObjects and may pause and
\* resume the engine, the user may close the window.  Once start() is in its
\* loop the program keeps executing it, so the loop's step is weakly fair.
NextRun ==
    \/ \E o \in Obj : Construct(o, "", 0)
    \/ \E p \in Ptr : AddGameObject(p)
    \/ Pause
    \/ Resume
    \/ \E w \in Win : CloseEvent(w)
    \/ Start
    \/ Frame

SpecRun == Init /\ [][NextRun]_vars /\ WF_vars(Frame)

\* The Color operators, each applied to every pair of drawn Colors.
NextColor == ColorPlus \/ ColorMinus \/ ColorPlusAssign \/ ColorMinusAssign

SpecColor == InitColor /\ [][NextColor]_vars

\* The Color-by-scalar operators, each applied to every drawn Color and scalar.
NextScalar == ColorTimesScalar \/ ColorDivScalar

SpecScalar == InitScalar /\ [][NextScalar]_vars

\* The Vector element access and division operators, each applied once to the
\* drawn operands.
NextVector ==
    \/ \E i \in VecIndex : VecGetItem(i)
    \/ \E i \in VecIndex, val \in VecValues : VecSetItem(i, val)
    \/ \E scalar \in Divisors : VecDivScalar(scalar)
    \/ VecDivVector

SpecVector == InitVector /\ [][NextVector]_vars

\* One call of a rounding function of Math.
NextMath ==
    \/ \E fn \in MathFunctions, value \in MathValues : MathCall(fn, value)
    \/ MathBody

SpecMath == Init /\ [][NextMath]_vars

\* ---------------------------------------------------------------------------
\* Properties
\* ---------------------------------------------------------------------------
Min(S) == CHOOSE x \in S : \A y \in S : x <= y

\* s without its i-th element
Without(s, i) == SubSeq(s, 1, i - 1) \o SubSeq(s, i + 1, Len(s))

NoDuplicates(s) == \A i, j \in 1..Len(s) : i # j => s[i] # s[j]

\* C1: destroying a GameObject N tears N down at most once: once N.destroy()
\* has run, no second destruction of N takes effect.
C1_TornDownAtMostOnce ==
    \A o \in Obj : dtor_entries[o] <= 1

\* C2: a destruction deletes each component at most once, never enters the
\* destructor of an object whose destructor is already running, and does not
\* run out of stack.
C2_EachOnceAndTerminates ==
    /\ \A c \in Comp : comp_deletes[c] <= 1
    /\ NoDuplicates(stack)
    /\ pc # "crashed"

\* C3: the registry maps id -> N exactly for the live GameObjects N:
\* get_object_by_id(N.id) is N for every live N, and null for any other id.
C3_RegistryMatchesLive ==
    /\ \A o \in Obj : Live(o) => get_object_by_id(id_[o]) = o
    /\ \A i \in Ids : get_object_by_id(i) # NULL =>
           Live(get_object_by_id(i)) /\ id_[get_object_by_id(i)] = i

\* C4: no two live GameObjects hold the same id.
C4_LiveIdsDistinct ==
    \A o, q \in Obj : (Live(o) /\ Live(q) /\ o # q) => id_[o] # id_[q]

\* C5: after N.set_parent(P) with P non-null, N.get_parent() is P, N is the
\* last element of P's children, occurs there once and in no other children list.
C5_SetParentLinks ==
    (last.op = "set_parent" /\ last.arg # NULL) =>
        LET N == last.self
            P == last.arg
        IN  /\ get_parent(N) = P
            /\ children_[P] # <<>>
            /\ children_[P][Len(children_[P])] = N
            /\ Occurrences(children_[P], N) = 1
            /\ \A q \in Obj : q # P => ~contains_child(q, N)

\* C6: A.set_parent(B) directly followed by A.set_parent(nullptr) leaves B's
\* children with the length they had before the first call, and A.get_parent()
\* is null.
C6_AttachDetach ==
    (last.op = "set_parent" /\ last.arg = NULL /\ last.old # NULL) =>
        /\ Len(children_[last.old]) = last.len
        /\ get_parent(last.self) = NULL

\* a state right after A.set_parent(B); A.set_parent(nullptr), B holding a child
C6_Witness ==
    /\ last.op = "set_parent" /\ last.arg = NULL /\ last.old # NULL
    /\ last.old # last.self
    /\ last.len > 0
    /\ get_parent(last.self) = NULL

\* the k-th ancestor of o along parent_ (NULL when the chain ends before)
RECURSIVE Ancestor(_, _)
Ancestor(o, k) ==
    IF o = NULL THEN NULL
    ELSE IF k = 0 THEN o
    ELSE Ancestor(parent_[o], k - 1)

\* C7: set_parent rejects self-parenting and cycles, so no GameObject is its
\* own ancestor.
C7_ParentAcyclic ==
    \A o \in constructed : \A k \in 1..MaxObj : Ancestor(o, k) # o

\* C8: after P.add_child(C), P.contains_child(C) is true, C is in
\* P.get_children() and C.get_parent() is P.
C8_AddChildLinks ==
    (last.op = "add_child" /\ last.arg # NULL) =>
        /\ contains_child(last.self, last.arg)
        /\ get_parent(last.arg) = last.self

\* the indices of the children in s that the removal call c asks for
Matches(c, s) ==
    {i \in 1..Len(s) :
        CASE c.op = "remove_child" -> s[i] = c.arg
          [] c.op = "remove_child_by_name" -> s[i] # NULL /\ name_[s[i]] = c.name
          [] c.op = "remove_child_by_id" -> s[i] # NULL /\ id_[s[i]] = c.arg}

IsRemoval(c) ==
    c.op \in {"remove_child", "remove_child_by_name", "remove_child_by_id"}

C10_GetChildByName ==
    \A p \in constructed : \A n \in Names :
        LET s == children_[p]
            m == {i \in 1..Len(s) : s[i] # NULL /\ name_[s[i]] = n}
        IN  get_child_by_name(p, n) =
                IF n = "" \/ m = {} THEN NULL ELSE s[Min(m)]

\* C11: two add_component calls on one GameObject with two components of the
\* same id leave one of them attached: no components_ vector ever holds two
\* different components with the same id.
C11_OneComponentPerId ==
    \A o \in Obj : \A i, j \in 1..Len(components_[o]) :
        components_[o][i] # components_[o][j] =>
            comp_id[components_[o][i]] # comp_id[components_[o][j]]

\* The dispatch contract for the GameObject self: Component::update was called
\* once on each component attached to self and on no other, in the order of
\* attachment.
DispatchContract(self) ==
    LET comps == components_[self]
        first(c) == Min({k \in 1..Len(comps) : comps[k] = c})
    IN  /\ \A c \in Comp :
               Occurrences(updated, c) = IF Occurrences(comps, c) > 0 THEN 1 ELSE 0
        /\ \A i, j \in 1..Len(updated) :
               i < j => first(updated[i]) < first(updated[j])

\* C12: one GameObject::update calls update once on every component attached
\* to that GameObject, in the order they were added, and on no component of
\* any other GameObject.
C12_UpdateDispatch ==
    last.op = "update" => DispatchContract(last.self)

\* C13: one GameObject::fixed_update reaches every component attached to the
\* GameObject once, in the order they were added.
C13_FixedUpdateDispatch ==
    last.op = "fixed_update" => DispatchContract(last.self)

\* C14: N.clone() returns: it does not overflow the stack, and what it returns
\* is a live GameObject other than N with N's name and parent.
C14_CloneReturnsCopy ==
    last.op = "clone" =>
        /\ pc # "crashed"
        /\ pc = "idle" =>
               /\ last.ret # last.self
               /\ last.ret \in constructed /\ Live(last.ret)
               /\ name_[last.ret] = name_[last.self]
               /\ parent_[last.ret] = parent_[last.self]

\* the positions of the non-null properties in props with the name n / the id k
NamedAt(props, n) ==
    {i \in 1..Len(props) : props[i] # NullProperty /\ props[i].name = n}

IdAt(props, k) ==
    {i \in 1..Len(props) : props[i] # NullProperty /\ props[i].id = k}

LifeState(o) ==
    IF dtor_entries[o] = 0 THEN "Live"
    ELSE IF pc = "idle" THEN "Destroyed"
    ELSE "Destroying"

\* C18: a GameObject only moves Live -> Destroying -> Destroyed: every step
\* that enters the destructor of a GameObject finds it Live, and no step takes
\* a GameObject back to an earlier state.
C18_LifecycleForwardOnly ==
    [][\A o \in Obj :
          /\ dtor_entries'[o] # dtor_entries[o] => LifeState(o) = "Live"
          /\ LifeState(o) = "Destroying" => LifeState(o)' # "Live"
          /\ LifeState(o) = "Destroyed" => LifeState(o)' = "Destroyed"]_vars

\* C19: an Engine::update of an engine that is not paused calls update once on
\* every live GameObject the engine tracks, and on no other.
C19_EngineUpdateOncePerObject ==
    (last.op = "engine_update" /\ ~is_paused_) =>
        \A o \in Obj :
            Occurrences(engine_updated, o) =
                IF Live(o) /\ Occurrences(game_objects_, o) > 0 THEN 1 ELSE 0

Max(S) == CHOOSE x \in S : \A y \in S : x >= y

\* C20: in every channel, alpha included, x + y is min(255, x.c + y.c) and
\* x - y is max(0, x.c - y.c), and x += y leaves x equal to x + y.
C20_SaturatingArithmetic ==
    \A c \in Channels :
        /\ cop = "+" => cres[c] = Min({255, cx[c] + cy[c]})
        /\ cop = "-" => cres[c] = Max({0, cx[c] - cy[c]})
        /\ cop = "+=" => cx[c] = Min({255, cpre[c] + cy[c]})

\* a sum that saturates in alpha, lands on 255 exactly in red and stays below
\* it in green
C20_Witness ==
    /\ cop = "+"
    /\ cx.a + cy.a > 255 /\ cres.a = 255
    /\ cx.r + cy.r = 255 /\ cres.r = 255
    /\ cx.g + cy.g < 255 /\ cres.g = cx.g + cy.g /\ cres.g > 0

\* C21: every channel of c * s is in 0..255, 0 for a negative s and 255 when
\* the channel times s is above 255; for s > 0 every channel of c / s is the
\* channel divided by s, truncated and capped at 255.
C21_ScalarArithmetic ==
    \A c \in Channels :
        /\ cop = "*" =>
               /\ cres[c] \in 0..255
               /\ cs < 0 => cres[c] = 0
               /\ cx[c] * cs > 255 * ScalarUnit => cres[c] = 255
        /\ (cop = "/" /\ cs > 0) =>
               cres[c] = Min({255, (cx[c] * ScalarUnit) \div cs})

\* C22: v[i] is the i-th component for every 0 <= i < N; for every i >= N the
\* read and the write form of v[i] raise an out-of-range error and leave the
\* vector as it was.
C22_IndexAccess ==
    /\ vlast.op = "getitem" =>
           /\ vec = vlast.pre
           /\ IF vlast.index < VecDim
              THEN vlast.err = "" /\ vlast.ret = <<vlast.pre[vlast.index + 1]>>
              ELSE vlast.err = "out_of_range" /\ vlast.ret = <<>>
    /\ vlast.op = "setitem" =>
           IF vlast.index < VecDim
           THEN /\ vlast.err = ""
                /\ vec = [vlast.pre EXCEPT ![vlast.index + 1] = vlast.val]
           ELSE vlast.err = "out_of_range" /\ vec = vlast.pre

\* a write at the first index past the end, refused with the vector intact
C22_Witness ==
    /\ vlast.op = "setitem" /\ vlast.index = VecDim
    /\ vlast.err = "out_of_range"
    /\ vec = vlast.pre /\ vlast.val # vec[VecDim]

\* C23: v / s raises a division-by-zero error when s is 0, and v1 / v2 raises
\* it when a component of v2 is 0; otherwise the result is the component-wise
\* quotient; neither operand is modified.
C23_Division ==
    /\ vlast.op = "div_scalar" =>
           /\ vec = vlast.pre /\ vec2 = vlast.pre2
           /\ IF vlast.val = 0 THEN vlast.err = "runtime_error"
              ELSE /\ vlast.err = ""
                   /\ Len(vlast.ret) = VecDim
                   /\ \A k \in 1..VecDim :
                          vlast.ret[k] * vlast.val = vlast.pre[k]
    /\ vlast.op = "div_vector" =>
           /\ vec = vlast.pre /\ vec2 = vlast.pre2
           /\ IF \E k \in 1..VecDim : vlast.pre2[k] = 0
              THEN vlast.err = "runtime_error"
              ELSE /\ vlast.err = ""
                   /\ Len(vlast.ret) = VecDim
                   /\ \A k \in 1..VecDim :
                          vlast.ret[k] * vlast.pre2[k] = vlast.pre[k]

\* a vector division refused for a zero in the last component of v2 only
C23_Witness ==
    /\ vlast.op = "div_vector" /\ vlast.err = "runtime_error"
    /\ vlast.pre2[VecDim] = 0
    /\ \A k \in 1..(VecDim - 1) : vlast.pre2[k] # 0

\* the rounding of v tenths: down, up, and to the nearest with halves away
\* from zero
FloorOf(v) == v \div 10
CeilOf(v) == -((-v) \div 10)
RoundOf(v) == IF v >= 0 THEN (v + 5) \div 10 ELSE -((5 - v) \div 10)

\* C24: for every finite v, Math::floor, Math::ceil and Math::round return,
\* and return the greatest integer not above v, the least integer not below
\* v, and the nearest integer with halves rounded away from zero.
C24_RoundingReturns ==
    /\ mpc # "crashed"
    /\ (mlast.fn # "none" /\ mpc = "idle") =>
           mlast.ret = CASE mlast.fn = "floor" -> FloorOf(mlast.value)
                         [] mlast.fn = "ceil" -> CeilOf(mlast.value)
                         [] mlast.fn = "round" -> RoundOf(mlast.value)

\* C25: across add_game_object, start, stop, restart and the Engine's
\* destruction, the engine deletes each GameObject at most once, and its
\* tracked list holds no GameObject the engine has deleted.
C25_TrackedDeletedOnce ==
    \A o \in Obj :
        /\ engine_deleted[o] <= 1
        /\ engine_deleted[o] > 0 =>
               \A i \in 1..Len(game_objects_) : game_objects_[i] # o

\* C26: the engine deletes only Windows it constructed, each at most once;
\* window_ (what get_window() returns) is never a deleted Window, also after
\* set_window(get_window()); set_window(nullptr) changes nothing.
C26_WindowOwnership ==
    /\ \A w \in Win :
           /\ win_deletes[w] <= 1
           /\ win_deletes[w] > 0 => win_owner[w] = "engine"
    /\ window_ # NULL => win_deletes[window_] = 0
    /\ (last.op = "setWindow" /\ last.arg = NULL) =>
           /\ window_ = last.pre[1]
           /\ owns_window_ = (last.pre[2] = 1)

\* C27: when start() has returned, is_running() is false.
C27_StoppedAfterStart ==
    last.op = "start_returned" => ~is_running_

\* C28: when the engine runs its loop with a window and the window has
\* received a close event, the loop of start() eventually ends, paused or not.
C28_CloseEndsLoop ==
    (engine_pc = "loop" /\ (IF window_ = NULL THEN FALSE ELSE win_event[window_]))
        ~> (engine_pc = "idle")

\* C29: an Engine::update between pause() and the next resume() calls update
\* on no GameObject; an Engine::update outside such a span dispatches to every
\* tracked GameObject; pause() and resume() leave the tracked list as it is.
C29_PauseSuspendsDispatch ==
    [][/\ last'.op \in {"pause", "resume"} => game_objects_' = game_objects_
       /\ (last'.op = "engine_update" /\ in_pause) =>
              engine_updated' = <<>> /\ updated' = <<>>
       /\ (last'.op = "engine_update" /\ ~in_pause) =>
              \A o \in Obj : Occurrences(game_objects_, o) > 0 <=>
                             Occurrences(engine_updated', o) > 0]_vars

\* an Engine::update, called while paused on an engine that tracks a
\* GameObject, has dispatched nothing
C29_Witness ==
    /\ last.op = "engine_update" /\ in_pause
    /\ FirstTracked # NULL
    /\ engine_updated = <<>>

\* C30: once remove_all_components() has returned the node's components_ is
\* empty, once remove_all_children() has returned its children_ is empty, and
\* no update reaches, and no destruction deletes again, a Component that was
\* already deleted.
C30_RemoveAllEmpties ==
    /\ (last.op = "remove_all_components" /\ pc = "idle") =>
           components_[last.self] = <<>>
    /\ (last.op = "remove_all_children" /\ pc = "idle") =>
           children_[last.self] = <<>>
    /\ last.op = "update" =>
           \A i \in 1..Len(updated) : comp_deletes[updated[i]] = 0
    /\ \A c \in Comp : comp_deletes[c] <= 1
====
